---- MODULE Spec2Model ----
(***************************************************************************)
(* Model of the array-backed QuadTree node pool of PyTree                  *)
(* (pytree/SpatialPartioningtree/quadtree/_quadtree.py): the pool          *)
(* all_quad_node, the free-list head _free_quad_node_index, the counter    *)
(* _num_quad_node_in_use and the operations set_branch,                    *)
(* set_free_quad_node and clean_up.                                        *)
(*                                                                         *)
(* Pool indices are the 0-based Python indices; the pool is a TLA+         *)
(* sequence, so the slot of index i is nodes[i + 1].                       *)
(***************************************************************************)
EXTENDS Integers, Sequences, FiniteSets, TLC

VARIABLES nodes,   \* self.all_quad_node
          free,    \* self._free_quad_node_index
          inuse,   \* self._num_quad_node_in_use
          freed,   \* history: bases of the blocks freed and not yet reused, latest first
          frees,   \* history: number of direct set_free_quad_node calls made so far
          last,    \* history: the last call, its argument and what it found before it ran
          bst,     \* the BST_Node objects of a BinaryTree, self.root being bst[Root]
          held     \* history: the values inserted in the BinaryTree and not removed since

vars == <<nodes, free, inuse, freed, frees, last, bst, held>>

\* Largest number of 4-slot blocks the pool may grow to.
MaxBlocks == 2
\* Largest number of reachable leaves that hold entities at the same time.
MaxOccupied == 1
\* Largest number of direct set_free_quad_node calls in one behaviour.
MaxFrees == 2

----------------------------------------------------------------------------
(* QuadNode record                                                         *)

QuadNode(parent) ==
    [first_child |-> -1, total_entity |-> 0, parent_index |-> parent, in_use |-> TRUE]

is_leaf(q) == q.total_entity >= 0

is_branch(q) == q.total_entity = -1

update(q, fc, te, pi) ==
    [first_child |-> fc, total_entity |-> te, parent_index |-> pi, in_use |-> TRUE]

set_free(q, next_free) ==
    [q EXCEPT !.first_child = next_free, !.in_use = FALSE]

----------------------------------------------------------------------------
(* Python list indexing: indices -len .. len-1 are valid, negative ones    *)
(* count from the end, anything else raises IndexError.                    *)

ValidIndex(ns, j) == j >= -Len(ns) /\ j < Len(ns)

Pos(ns, j) == IF j >= 0 THEN j ELSE Len(ns) + j

At(ns, j) == ns[Pos(ns, j) + 1]

Put(ns, j, q) == [ns EXCEPT ![Pos(ns, j) + 1] = q]

\* The pool as the operations see it: s.err is "none" or the exception raised.
Pool(ns, f, u, fr) == [nodes |-> ns, free |-> f, inuse |-> u, freed |-> fr, err |-> "none"]

Raise(s, e) == [s EXCEPT !.err = e]

Drop(fr, b) == SelectSeq(fr, LAMBDA x : x # b)

----------------------------------------------------------------------------
(* set_branch                                                              *)

\* UpdateChildren running over five slots, the one after the block included
UpdateChildren_FiveSlots(ns, base, qindex, i) ==
    [k \in 1..Len(ns) |->
        IF k - 1 >= base + i /\ k - 1 <= base + 4 THEN update(ns[k], -1, 0, qindex) ELSE ns[k]]

\* the loop of lines 247-251
RECURSIVE UpdateChildren(_, _, _, _)
UpdateChildren(ns, base, qindex, i) ==
    IF i = 4 THEN ns
    ELSE UpdateChildren(Put(ns, base + i, update(At(ns, base + i), -1, 0, qindex)),
                        base, qindex, i + 1)

\* AppendBlock that also grows the pool by a block nobody owns
AppendBlock_TwoBlocks(s, qindex) ==
    [s EXCEPT !.nodes = Put(s.nodes, qindex, [At(s.nodes, qindex) EXCEPT !.first_child = Len(s.nodes)])
                        \o [i \in 1..8 |-> QuadNode(qindex)]]

\* lines 232-239: the free list is empty, the pool grows by one block
AppendBlock(s, qindex) ==
    [s EXCEPT !.nodes = Put(s.nodes, qindex, [At(s.nodes, qindex) EXCEPT !.first_child = Len(s.nodes)])
                        \o [i \in 1..4 |-> QuadNode(qindex)]]

\* ReuseBlock with the children given the block's base as parent_index
ReuseBlock_WrongParent(s, qindex) ==
    LET ns   == Put(s.nodes, qindex, [At(s.nodes, qindex) EXCEPT !.first_child = s.free])
        next == At(ns, At(ns, qindex).first_child).first_child
    IN  [s EXCEPT !.nodes = UpdateChildren(ns, s.free, s.free, 0),
                  !.free  = next,
                  !.freed = Drop(s.freed, s.free)]

\* ReuseBlock with the loop starting at the second child
ReuseBlock_SkipFirst(s, qindex) ==
    LET ns   == Put(s.nodes, qindex, [At(s.nodes, qindex) EXCEPT !.first_child = s.free])
        next == At(ns, At(ns, qindex).first_child).first_child
    IN  [s EXCEPT !.nodes = UpdateChildren(ns, s.free, qindex, 1),
                  !.free  = next,
                  !.freed = Drop(s.freed, s.free)]

\* ReuseBlock that empties the free list instead of following the link
ReuseBlock_DropChain(s, qindex) ==
    LET ns   == Put(s.nodes, qindex, [At(s.nodes, qindex) EXCEPT !.first_child = s.free])
    IN  [s EXCEPT !.nodes = UpdateChildren(ns, s.free, qindex, 0),
                  !.free  = -1,
                  !.freed = Drop(s.freed, s.free)]

\* ReuseBlock that leaves the free-list head where it was
ReuseBlock_KeepHead(s, qindex) ==
    LET ns   == Put(s.nodes, qindex, [At(s.nodes, qindex) EXCEPT !.first_child = s.free])
    IN  [s EXCEPT !.nodes = UpdateChildren(ns, s.free, qindex, 0),
                  !.freed = Drop(s.freed, s.free)]

\* lines 241-256: the block at the head of the free list is given out
ReuseBlock(s, qindex) ==
    LET ns   == Put(s.nodes, qindex, [At(s.nodes, qindex) EXCEPT !.first_child = s.free])
        next == At(ns, At(ns, qindex).first_child).first_child
    IN  [s EXCEPT !.nodes = UpdateChildren(ns, s.free, qindex, 0),
                  !.free  = next,
                  !.freed = Drop(s.freed, s.free)]

set_branch(s, qindex) ==
    LET s1 == [s EXCEPT !.nodes = Put(s.nodes, qindex, [At(s.nodes, qindex) EXCEPT !.total_entity = -1]),
                        !.inuse = s.inuse + 4]
    IN  IF s1.free = -1 THEN AppendBlock(s1, qindex) ELSE ReuseBlock(s1, qindex)

----------------------------------------------------------------------------
(* set_free_quad_node                                                      *)

\* The loop of lines 266-268: parent_node.first_child is read again in every
\* iteration; an index outside the pool raises IndexError and leaves the
\* slots already freed as they are.
RECURSIVE FreeSlots(_, _, _, _)

\* FreeSlots with the loop ending after the third slot
FreeSlots_ThreeSlots(s, parent, head, i) ==
    IF i >= 3 THEN s
    ELSE LET j == At(s.nodes, parent).first_child + i
         IN  IF ~ValidIndex(s.nodes, j) THEN Raise(s, "IndexError")
             ELSE FreeSlots([s EXCEPT !.nodes = Put(s.nodes, j, set_free(At(s.nodes, j), head))],
                            parent, head, i + 1)

FreeSlots(s, parent, head, i) ==
    IF i = 4 THEN s
    ELSE LET j == At(s.nodes, parent).first_child + i
         IN  IF ~ValidIndex(s.nodes, j) THEN Raise(s, "IndexError")
             ELSE FreeSlots([s EXCEPT !.nodes = Put(s.nodes, j, set_free(At(s.nodes, j), head))],
                            parent, head, i + 1)

\* set_free_quad_node without the decrement of the counter
set_free_quad_node_NoDecrement(s, qindex) ==
    IF (qindex - 1) % 4 # 0 THEN Raise(s, "ValueError")
    ELSE IF ~ValidIndex(s.nodes, qindex) THEN Raise(s, "IndexError")
    ELSE LET parent == At(s.nodes, qindex).parent_index
         IN  IF ~ValidIndex(s.nodes, parent) THEN Raise(s, "IndexError")
             ELSE LET s1 == FreeSlots(s, parent, s.free, 0)
                  IN  IF s1.err # "none" THEN s1
                      ELSE [s1 EXCEPT
                              !.free  = qindex,
                              !.freed = <<qindex>> \o Drop(s.freed, qindex),
                              !.nodes = Put(s1.nodes, parent,
                                            [At(s1.nodes, parent) EXCEPT
                                                !.first_child = -1,
                                                !.total_entity = 0])]

\* set_free_quad_node that leaves the parent a branch
set_free_quad_node_KeepParent(s, qindex) ==
    IF (qindex - 1) % 4 # 0 THEN Raise(s, "ValueError")
    ELSE IF ~ValidIndex(s.nodes, qindex) THEN Raise(s, "IndexError")
    ELSE LET parent == At(s.nodes, qindex).parent_index
         IN  IF ~ValidIndex(s.nodes, parent) THEN Raise(s, "IndexError")
             ELSE LET s1 == FreeSlots(s, parent, s.free, 0)
                  IN  IF s1.err # "none" THEN s1
                      ELSE [s1 EXCEPT
                              !.free  = qindex,
                              !.inuse = s.inuse - 4,
                              !.freed = <<qindex>> \o Drop(s.freed, qindex)]

\* set_free_quad_node that takes the multiples of 4 for the first slots
set_free_quad_node_WrongResidue(s, qindex) ==
    IF qindex % 4 # 0 THEN Raise(s, "ValueError")
    ELSE IF ~ValidIndex(s.nodes, qindex) THEN Raise(s, "IndexError")
    ELSE LET parent == At(s.nodes, qindex).parent_index
         IN  IF ~ValidIndex(s.nodes, parent) THEN Raise(s, "IndexError")
             ELSE LET s1 == FreeSlots(s, parent, s.free, 0)
                  IN  IF s1.err # "none" THEN s1
                      ELSE [s1 EXCEPT
                              !.free  = qindex,
                              !.inuse = s.inuse - 4,
                              !.freed = <<qindex>> \o Drop(s.freed, qindex),
                              !.nodes = Put(s1.nodes, parent,
                                            [At(s1.nodes, parent) EXCEPT
                                                !.first_child = -1,
                                                !.total_entity = 0])]

set_free_quad_node(s, qindex) ==
    IF (qindex - 1) % 4 # 0 THEN Raise(s, "ValueError")
    ELSE IF ~ValidIndex(s.nodes, qindex) THEN Raise(s, "IndexError")
    ELSE LET parent == At(s.nodes, qindex).parent_index
         IN  IF ~ValidIndex(s.nodes, parent) THEN Raise(s, "IndexError")
             ELSE LET s1 == FreeSlots(s, parent, s.free, 0)
                  IN  IF s1.err # "none" THEN s1
                      ELSE [s1 EXCEPT
                              !.free  = qindex,
                              !.inuse = s.inuse - 4,
                              !.freed = <<qindex>> \o Drop(s.freed, qindex),
                              !.nodes = Put(s1.nodes, parent,
                                            [At(s1.nodes, parent) EXCEPT
                                                !.first_child = -1,
                                                !.total_entity = 0])]

----------------------------------------------------------------------------
(* clean_up                                                                *)

\* Depth at which the interpreter gives up a recursion that never ends
\* (only a cyclic pool gets there).
RecursionLimit == 8

RECURSIVE clean_unused_qnode(_, _, _)
RECURSIVE CleanChildren(_, _, _, _, _)

\* clean_unused_qnode answering 0 for a branch it has just collapsed
clean_unused_qnode_ZeroAfterFree(s, qindex, depth) ==
    LET qnode == At(s.nodes, qindex)
    IN  IF depth > RecursionLimit THEN [s |-> Raise(s, "RecursionError"), ret |-> 0]
        ELSE IF ~qnode.in_use \/ (is_leaf(qnode) /\ qnode.total_entity > 0)
        THEN [s |-> s, ret |-> 0]
        ELSE IF is_branch(qnode)
        THEN LET cindex == qnode.first_child
                 c      == CleanChildren(s, cindex, 0, 0, depth)
             IN  IF c.s.err # "none" THEN [s |-> c.s, ret |-> 0]
                 ELSE IF c.ret = 4
                 THEN LET f == set_free_quad_node(c.s, cindex)
                      IN  IF f.err # "none" THEN [s |-> f, ret |-> 0]
                          ELSE IF qindex = 0
                          THEN [s |-> [f EXCEPT !.nodes =
                                          Put(f.nodes, 0, [At(f.nodes, 0) EXCEPT !.first_child = 1])],
                                ret |-> 0]
                          ELSE [s |-> f, ret |-> 0]
                 ELSE [s |-> c.s, ret |-> 1]
        ELSE [s |-> s, ret |-> 1]

\* sum(clean_unused_qnode(self.all_quad_node[cindex + i]) for i in range(4))
CleanChildren(s, cindex, i, acc, depth) ==
    IF i = 4 \/ s.err # "none" THEN [s |-> s, ret |-> acc]
    ELSE IF ~ValidIndex(s.nodes, cindex + i)
         THEN [s |-> Raise(s, "IndexError"), ret |-> acc]
         ELSE LET r == clean_unused_qnode(s, Pos(s.nodes, cindex + i), depth + 1)
              IN  CleanChildren(r.s, cindex, i + 1, acc + r.ret, depth)

clean_unused_qnode(s, qindex, depth) ==
    LET qnode == At(s.nodes, qindex)
    IN  IF depth > RecursionLimit THEN [s |-> Raise(s, "RecursionError"), ret |-> 0]
        ELSE IF ~qnode.in_use \/ (is_leaf(qnode) /\ qnode.total_entity > 0)
        THEN [s |-> s, ret |-> 0]
        ELSE IF is_branch(qnode)
        THEN LET cindex == qnode.first_child
                 c      == CleanChildren(s, cindex, 0, 0, depth)
             IN  IF c.s.err # "none" THEN [s |-> c.s, ret |-> 0]
                 ELSE IF c.ret = 4
                 THEN LET f == set_free_quad_node(c.s, cindex)
                      IN  IF f.err # "none" THEN [s |-> f, ret |-> 0]
                          ELSE IF qindex = 0
                          THEN [s |-> [f EXCEPT !.nodes =
                                          Put(f.nodes, 0, [At(f.nodes, 0) EXCEPT !.first_child = 1])],
                                ret |-> 1]
                          ELSE [s |-> f, ret |-> 1]
                 ELSE [s |-> c.s, ret |-> 1]
        ELSE [s |-> s, ret |-> 1]

clean_up(s) == clean_unused_qnode(s, 0, 0).s

----------------------------------------------------------------------------
(* Structure reachable from the root: the children of a branch node b are  *)
(* the slots b.first_child .. b.first_child + 3.                           *)

ChildrenOf(ns, b) ==
    LET fc == ns[b + 1].first_child
    IN  IF ~is_branch(ns[b + 1]) THEN {}
        ELSE IF fc >= 0 /\ fc + 3 < Len(ns) THEN {fc, fc + 1, fc + 2, fc + 3}
        ELSE {Pos(ns, fc + i) : i \in {k \in 0..3 : ValidIndex(ns, fc + k)}}

\* S: the slots found so far, F: those of them not yet expanded.
RECURSIVE ReachFrom(_, _, _)
ReachFrom(ns, S, F) ==
    LET T == (UNION {ChildrenOf(ns, b) : b \in F}) \ S
    IN  IF T = {} THEN S ELSE ReachFrom(ns, S \cup T, T)

ReachableIn(ns) == ReachFrom(ns, {0}, {0})

Reachable == ReachableIn(nodes)

BranchesIn(ns) == {b \in ReachableIn(ns) : is_branch(At(ns, b))}

LeavesIn(ns) == {b \in ReachableIn(ns) : is_leaf(At(ns, b))}

\* The free-list chain: the bases met from the head by following the link
\* kept in the first slot of each block.
RECURSIVE ChainFrom(_, _, _)
ChainFrom(ns, b, k) ==
    IF b = -1 \/ k = 0 \/ ~ValidIndex(ns, b) THEN <<>>
    ELSE <<b>> \o ChainFrom(ns, At(ns, b).first_child, k - 1)

FreeChain == ChainFrom(nodes, free, Len(nodes))

Range(f) == {f[i] : i \in DOMAIN f}

BlockOf(b) == {b + i : i \in 0..3}

----------------------------------------------------------------------------
(* Geometry of the regions (the utility module the tree imports): a box is *)
(* its corner and its size; a split gives four equal quadrants in a fixed  *)
(* order, quadrant i being the child first_child + i.                      *)

BBox(x, y, w, h) == [x |-> x, y |-> y, w |-> w, h |-> h]

\* the four quadrants of a box, indexed 0..3 as enumerate() does
split_box(b) ==
    [i \in 0..3 |-> BBox(b.x + (i % 2) * (b.w \div 2), b.y + (i \div 2) * (b.h \div 2),
                         b.w \div 2, b.h \div 2)]

\* box a lies wholly inside box b
is_inscribed(a, b) ==
    /\ a.x >= b.x /\ a.x + a.w <= b.x + b.w
    /\ a.y >= b.y /\ a.y + a.h <= b.y + b.h

\* boxes a and b share some area
is_intersecting(a, b) ==
    /\ a.x < b.x + b.w /\ b.x < a.x + a.w
    /\ a.y < b.y + b.h /\ b.y < a.y + a.h

Area(b) == b.w * b.h

\* The side of the tree's box: a power of two, so that the splits stay exact
\* down to the deepest node that MaxBlocks splits can create.
RootSide == 2 ^ MaxBlocks

\* self.bbox = BBox(0, 0, *size)
self_bbox == BBox(0, 0, RootSide, RootSide)

\* no box given (None)
NoBox == BBox(0, 0, 0, 0)

\* an entry of a traversal stack or of a result: a slot and its region
Entry(qindex, qbbox) == [index |-> qindex, bbox |-> qbbox]

----------------------------------------------------------------------------
(* find_quad_node                                                          *)

\* the children of a branch pushed by the loop of lines 138-143, without the
\* containment test
Descend_Overlapping(bbox, qbbox, first_child) ==
    SelectSeq([k \in 1..4 |-> Entry(first_child + k - 1, split_box(qbbox)[k - 1])],
              LAMBDA e : is_intersecting(bbox, e.bbox))

\* the children of a branch pushed by the loop of lines 138-143
Descend(bbox, qbbox, first_child) ==
    SelectSeq([k \in 1..4 |-> Entry(first_child + k - 1, split_box(qbbox)[k - 1])],
              LAMBDA e : is_intersecting(bbox, e.bbox) /\ is_inscribed(bbox, e.bbox))

\* the while loop of lines 125-143: to_process is a stack, popped at its end
RECURSIVE FindLoop(_, _, _, _)
FindLoop(ns, bbox, to_process, candidates) ==
    IF to_process = <<>> THEN [err |-> "none", out |-> candidates]
    ELSE LET top  == to_process[Len(to_process)]
             rest == SubSeq(to_process, 1, Len(to_process) - 1)
         IN  IF ~ValidIndex(ns, top.index) THEN [err |-> "IndexError", out |-> <<>>]
             ELSE IF ~At(ns, top.index).in_use THEN FindLoop(ns, bbox, rest, candidates)
             ELSE IF is_leaf(At(ns, top.index))
                  THEN FindLoop(ns, bbox, rest, Append(candidates, top))
             ELSE FindLoop(ns, bbox,
                           rest \o Descend(bbox, top.bbox, At(ns, top.index).first_child),
                           Append(candidates, top))

\* min(candidates, key = w * h): the first candidate of the smallest area
MinArea(candidates) ==
    candidates[CHOOSE i \in 1..Len(candidates) :
                  /\ \A j \in 1..Len(candidates) : Area(candidates[j].bbox) >= Area(candidates[i].bbox)
                  /\ \A j \in 1..(i - 1) : Area(candidates[j].bbox) > Area(candidates[i].bbox)]

\* find_quad_node(bbox, index=True): the result is a one-element sequence
find_quad_node(ns, bbox) ==
    LET r == FindLoop(ns, bbox, <<Entry(0, self_bbox)>>, <<>>)
    IN  IF r.err # "none" THEN r
        ELSE IF r.out = <<>> THEN [err |-> "ValueError", out |-> <<>>]
        ELSE [err |-> "none", out |-> <<MinArea(r.out)>>]

----------------------------------------------------------------------------
(* find_leaves                                                             *)

\* the children pushed by the loop of lines 192-194, all given the first
\* child's index
LeafDescend_SameChild(qbbox, first_child) ==
    SelectSeq([k \in 1..4 |-> Entry(first_child, split_box(qbbox)[k - 1])],
              LAMBDA e : is_intersecting(qbbox, e.bbox))

\* the children pushed by the loop of lines 192-194: the test compares the
\* node's own region with each of its quadrants
LeafDescend(qbbox, first_child) ==
    SelectSeq([k \in 1..4 |-> Entry(first_child + k - 1, split_box(qbbox)[k - 1])],
              LAMBDA e : is_intersecting(qbbox, e.bbox))

\* the while loop of lines 179-194
RECURSIVE LeavesLoop(_, _, _)
LeavesLoop(ns, to_process, bounded_leaves) ==
    IF to_process = <<>> THEN [err |-> "none", out |-> bounded_leaves]
    ELSE LET top  == to_process[Len(to_process)]
             rest == SubSeq(to_process, 1, Len(to_process) - 1)
         IN  IF ~ValidIndex(ns, top.index) THEN [err |-> "IndexError", out |-> <<>>]
             ELSE IF ~At(ns, top.index).in_use THEN LeavesLoop(ns, rest, bounded_leaves)
             ELSE IF is_leaf(At(ns, top.index))
                  THEN LeavesLoop(ns, rest, Append(bounded_leaves, top))
             ELSE LeavesLoop(ns,
                             rest \o LeafDescend(top.bbox, At(ns, top.index).first_child),
                             bounded_leaves)

----------------------------------------------------------------------------
(* get_bbox                                                                *)

\* the quadrants recorded by lines 92-98, the node's own first and the one
\* of the root's child last
RECURSIVE Quadrants(_, _)
Quadrants(ns, qindex) ==
    <<(qindex - 1) % 4>> \o
    (IF At(ns, qindex).parent_index = 0 THEN <<>>
     ELSE Quadrants(ns, At(ns, qindex).parent_index))

\* the loop of lines 105-109: the box split along the quadrants in the order
\* of the list
RECURSIVE SplitAlong(_, _)
SplitAlong(tbbox, quadrants) ==
    IF quadrants = <<>> THEN tbbox
    ELSE SplitAlong(split_box(tbbox)[Head(quadrants)], Tail(quadrants))

\* get_bbox(self.all_quad_node[qindex], index=True)
get_bbox(ns, qindex) ==
    IF qindex = 0 THEN [err |-> "none", out |-> <<Entry(0, self_bbox)>>]
    ELSE [err |-> "none", out |-> <<Entry(qindex, SplitAlong(self_bbox, Quadrants(ns, qindex)))>>]

\* find_leaves(qnode, bbox, index=True); qindex = -1 stands for qnode = None
\* and NoBox for bbox = None
find_leaves(ns, qindex, bbox) ==
    IF qindex = -1 /\ bbox = NoBox THEN [err |-> "ValueError", out |-> <<>>]
    ELSE IF qindex # -1 /\ bbox # NoBox THEN [err |-> "ValueError", out |-> <<>>]
    ELSE LET start == IF bbox # NoBox THEN find_quad_node(ns, bbox) ELSE get_bbox(ns, qindex)
         IN  IF start.err # "none" THEN start
             ELSE LeavesLoop(ns, start.out, <<>>)

----------------------------------------------------------------------------
(* height                                                                  *)

Max(S) == CHOOSE x \in S : \A y \in S : x >= y

\* traversal_counter of lines 41-47: a node whose first_child is not -1 is
\* descended into, whatever its total_entity and in_use are
RECURSIVE traversal_counter(_, _, _)
traversal_counter(ns, qnode_index, depth) ==
    IF depth > RecursionLimit THEN [err |-> "RecursionError", out |-> <<>>]
    ELSE IF ~ValidIndex(ns, qnode_index) THEN [err |-> "IndexError", out |-> <<>>]
    ELSE LET first_child == At(ns, qnode_index).first_child
             below == {traversal_counter(ns, first_child + i, depth + 1) : i \in 0..3}
         IN  IF first_child = -1 THEN [err |-> "none", out |-> <<1>>]
             ELSE IF \E r \in below : r.err # "none"
                  THEN CHOOSE r \in below : r.err # "none"
                  ELSE [err |-> "none", out |-> <<1 + Max({r.out[1] : r \in below})>>]

\* height (lines 37-49)
height(ns) == traversal_counter(ns, 0, 0)

----------------------------------------------------------------------------
(* insert                                                                  *)

\* insert(self) takes no entity and raises NotImplementedError; called with
\* an entity, as fill_tree does (line 74), the call itself is a TypeError
insert(s, given) ==
    IF given = 0 THEN Raise(s, "NotImplementedError") ELSE Raise(s, "TypeError")

----------------------------------------------------------------------------
(* BST_Node (pytree/binarytree/node/bst_node.py): the node objects are the *)
(* entries of a heap, a function from object identities to their fields;   *)
(* the tree's root object is created by the constructor and is never       *)
(* replaced.                                                               *)

\* Largest value stored in the binary tree.
MaxValue == 2

\* the values stored: the integers from -1, with 0 (falsy) not the least
Values == (0 - 1)..MaxValue

\* the value None, which is none of the integers
None == 0 - 2

\* the reference None
NoNode == 0

\* the identity of the object self.root
Root == 1

\* no key given (None)
NoKey == "none"

\* BST_Node(value, parent = parent)
BST_Node(value, parent) ==
    [value |-> value, parent |-> parent, left |-> NoNode, right |-> NoNode]

\* the identity a new object gets: the first not held by a live object
NewId(h) == CHOOSE n \in 1..(Cardinality(DOMAIN h) + 1) :
                /\ n \notin DOMAIN h
                /\ \A m \in 1..(n - 1) : m \in DOMAIN h

\* a == b between what two references hold: the dataclass compares the
\* values only, and None equals no node
NodeEq(h, a, b) == a # NoNode /\ b # NoNode /\ h[a].value = h[b].value

\* the objects that can be reached from the root: the others are garbage
RECURSIVE Live(_, _)
Live(h, n) ==
    IF n = NoNode THEN {} ELSE {n} \cup Live(h, h[n].left) \cup Live(h, h[n].right)

Collect(h) == [n \in Live(h, Root) |-> h[n]]

\* insert_node that puts a greater value on the left when the left is empty
RECURSIVE insert_node(_, _, _)
insert_node_LeftFirst(h, self, value) ==
    IF value = h[self].value THEN h
    ELSE IF h[self].left = NoNode
         THEN [h EXCEPT ![self].left = NewId(h)] @@ (NewId(h) :> BST_Node(value, self))
         ELSE insert_node(h, h[self].left, value)

\* _insert_node (lines 151-168)
insert_node(h, self, value) ==
    IF value = h[self].value THEN h
    ELSE IF value < h[self].value
         THEN IF h[self].left = NoNode
              THEN [h EXCEPT ![self].left = NewId(h)] @@ (NewId(h) :> BST_Node(value, self))
              ELSE insert_node(h, h[self].left, value)
         ELSE IF h[self].right = NoNode
              THEN [h EXCEPT ![self].right = NewId(h)] @@ (NewId(h) :> BST_Node(value, self))
              ELSE insert_node(h, h[self].right, value)

\* find_node that gives the node where the search ends
RECURSIVE find_node(_, _, _)
find_node_WhereItEnds(h, self, value) ==
    IF h[self].value = None THEN NoNode
    ELSE IF h[self].value = value THEN self
    ELSE IF h[self].left # NoNode /\ value < h[self].value
         THEN find_node(h, h[self].left, value)
    ELSE IF h[self].right # NoNode /\ value > h[self].value
         THEN find_node(h, h[self].right, value)
    ELSE self

\* find_node (lines 170-179)
find_node(h, self, value) ==
    IF h[self].value = None THEN NoNode
    ELSE IF h[self].value = value THEN self
    ELSE IF h[self].left # NoNode /\ value < h[self].value
         THEN find_node(h, h[self].left, value)
    ELSE IF h[self].right # NoNode /\ value > h[self].value
         THEN find_node(h, h[self].right, value)
    ELSE NoNode

\* find_gt_node (lines 181-194)
RECURSIVE find_gt_node(_, _, _)
find_gt_node(h, self, value) ==
    IF value < h[self].value
    THEN IF h[self].left # NoNode /\ value <= h[h[self].left].value
         THEN find_gt_node(h, h[self].left, value)
         ELSE self
    ELSE IF h[self].right # NoNode THEN find_gt_node(h, h[self].right, value)
         ELSE NoNode

\* find_lt_node (lines 196-209)
RECURSIVE find_lt_node(_, _, _)
find_lt_node(h, self, value) ==
    IF value > h[self].value
    THEN IF h[self].right # NoNode /\ value >= h[h[self].right].value
         THEN find_lt_node(h, h[self].right, value)
         ELSE self
    ELSE IF h[self].left # NoNode THEN find_lt_node(h, h[self].left, value)
         ELSE NoNode

\* find_le_node (lines 211-229)
find_le_node(h, self, value) ==
    IF ~(h[self].left # NoNode /\ h[self].right # NoNode) /\ value < h[self].value
    THEN NoNode
    ELSE IF /\ h[self].value <= value
            /\ (h[self].right = NoNode \/ h[h[self].right].value > value)
    THEN self
    ELSE IF h[self].value >= value THEN find_lt_node(h, h[self].left, value)
    ELSE find_lt_node(h, h[self].right, value)

\* find_min_node (lines 248-252)
RECURSIVE find_min_node(_, _)
find_min_node(h, self) ==
    IF h[self].left = NoNode THEN self ELSE find_min_node(h, h[self].left)

\* find_max_node (lines 254-258)
RECURSIVE find_max_node(_, _)
find_max_node(h, self) ==
    IF h[self].right = NoNode THEN self ELSE find_max_node(h, h[self].right)

RECURSIVE delete_node(_, _)

\* _delete_node that hands the only child to the parent without telling the
\* child
delete_node_ChildNotTold(h, self) ==
    LET n == h[self]
    IN  IF n.left = NoNode /\ n.right = NoNode
        THEN IF n.parent # NoNode
             THEN IF NodeEq(h, h[n.parent].left, self)
                  THEN [h EXCEPT ![n.parent].left = NoNode]
                  ELSE [h EXCEPT ![n.parent].right = NoNode]
             ELSE [h EXCEPT ![self].value = None]
        ELSE IF n.left # NoNode /\ n.right # NoNode
        THEN delete_node([h EXCEPT ![self].value = h[find_min_node(h, n.right)].value],
                         find_min_node(h, n.right))
        ELSE LET child == IF n.left # NoNode THEN n.left ELSE n.right
                 c     == h[child]
             IN  IF n.parent # NoNode
                 THEN IF NodeEq(h, h[n.parent].left, self)
                      THEN [h EXCEPT ![n.parent].left = child]
                      ELSE [h EXCEPT ![n.parent].right = child]
                 ELSE [i \in DOMAIN h |->
                          IF i = self
                          THEN [value |-> c.value, parent |-> NoNode,
                                left |-> c.left, right |-> c.right]
                          ELSE IF i # NoNode /\ (i = c.right \/ i = c.left)
                          THEN [h[i] EXCEPT !.parent = self]
                          ELSE h[i]]

\* _delete_node (lines 353-404)
delete_node(h, self) ==
    LET n == h[self]
    IN  IF n.left = NoNode /\ n.right = NoNode
        THEN \* CASE 1: no child
             IF n.parent # NoNode
             THEN IF NodeEq(h, h[n.parent].left, self)
                  THEN [h EXCEPT ![n.parent].left = NoNode]
                  ELSE [h EXCEPT ![n.parent].right = NoNode]
             ELSE [h EXCEPT ![self].value = None]
        ELSE IF n.left # NoNode /\ n.right # NoNode
        THEN \* CASE 2: two children
             delete_node([h EXCEPT ![self].value = h[find_min_node(h, n.right)].value],
                         find_min_node(h, n.right))
        ELSE \* CASE 3: one child
             LET child == IF n.left # NoNode THEN n.left ELSE n.right
                 c     == h[child]
             IN  IF n.parent # NoNode
                 THEN IF NodeEq(h, h[n.parent].left, self)
                      THEN [h EXCEPT ![child].parent = n.parent, ![n.parent].left = child]
                      ELSE [h EXCEPT ![child].parent = n.parent, ![n.parent].right = child]
                 ELSE [i \in DOMAIN h |->
                          IF i = self
                          THEN [value |-> c.value, parent |-> NoNode,
                                left |-> c.left, right |-> c.right]
                          ELSE IF i # NoNode /\ (i = c.right \/ i = c.left)
                          THEN [h[i] EXCEPT !.parent = self]
                          ELSE h[i]]

\* _rotate_left that leaves the parent field of the subtree it moves
rotate_left_SubtreeNotTold(h, self) ==
    LET parent_node == h[self].parent
        right_node  == h[self].right
        h1 == [h EXCEPT ![self].right = h[right_node].left]
        h3 == [h1 EXCEPT ![right_node].left = self]
        h4 == [h3 EXCEPT ![self].parent = right_node]
        h5 == [h4 EXCEPT ![right_node].parent = parent_node]
    IN  IF parent_node = NoNode THEN h5
        ELSE IF NodeEq(h5, h5[parent_node].right, self)
             THEN [h5 EXCEPT ![parent_node].right = right_node]
             ELSE [h5 EXCEPT ![parent_node].left = right_node]

\* _rotate_left (lines 406-446), on a node with a right child
rotate_left(h, self) ==
    LET parent_node == h[self].parent
        right_node  == h[self].right
        h1 == [h EXCEPT ![self].right = h[right_node].left]
        h2 == IF h1[right_node].left # NoNode
              THEN [h1 EXCEPT ![h1[right_node].left].parent = self] ELSE h1
        h3 == [h2 EXCEPT ![right_node].left = self]
        h4 == [h3 EXCEPT ![self].parent = right_node]
        h5 == [h4 EXCEPT ![right_node].parent = parent_node]
    IN  IF parent_node = NoNode THEN h5
        ELSE IF NodeEq(h5, h5[parent_node].right, self)
             THEN [h5 EXCEPT ![parent_node].right = right_node]
             ELSE [h5 EXCEPT ![parent_node].left = right_node]

\* _rotate_right (lines 449-489), on a node with a left child
rotate_right(h, self) ==
    LET parent_node == h[self].parent
        left_node   == h[self].left
        h1 == [h EXCEPT ![self].left = h[left_node].right]
        h2 == IF h1[left_node].right # NoNode
              THEN [h1 EXCEPT ![h1[left_node].right].parent = self] ELSE h1
        h3 == [h2 EXCEPT ![left_node].right = self]
        h4 == [h3 EXCEPT ![self].parent = left_node]
        h5 == [h4 EXCEPT ![left_node].parent = parent_node]
    IN  IF parent_node = NoNode THEN h5
        ELSE IF NodeEq(h5, h5[parent_node].left, self)
             THEN [h5 EXCEPT ![parent_node].left = left_node]
             ELSE [h5 EXCEPT ![parent_node].right = left_node]

\* get_root (lines 491-499)
RECURSIVE get_root(_, _)
get_root(h, self) == IF h[self].parent = NoNode THEN self ELSE get_root(h, h[self].parent)

\* self.root = self.root.get_root() (_tree.py lines 141-142): the tree's
\* root becomes the object at the top, so that object is the one called Root
Reroot(h) ==
    LET top     == get_root(h, Root)
        Swap(x) == IF x = Root THEN top ELSE IF x = top THEN Root ELSE x
    IN  [i \in DOMAIN h |->
            [value  |-> h[Swap(i)].value,
             parent |-> Swap(h[Swap(i)].parent),
             left   |-> Swap(h[Swap(i)].left),
             right  |-> Swap(h[Swap(i)].right)]]

\* the four orders of traverse_node (lines 96-134), as sequences of objects
RECURSIVE inorder_traversal(_, _)
inorder_traversal(h, node) ==
    (IF h[node].left # NoNode THEN inorder_traversal(h, h[node].left) ELSE <<>>)
    \o <<node>>
    \o (IF h[node].right # NoNode THEN inorder_traversal(h, h[node].right) ELSE <<>>)

RECURSIVE postorder_traversal(_, _)
postorder_traversal(h, node) ==
    (IF h[node].left # NoNode THEN postorder_traversal(h, h[node].left) ELSE <<>>)
    \o (IF h[node].right # NoNode THEN postorder_traversal(h, h[node].right) ELSE <<>>)
    \o <<node>>

RECURSIVE preorder_traversal(_, _)
preorder_traversal(h, node) ==
    <<node>>
    \o (IF h[node].left # NoNode THEN preorder_traversal(h, h[node].left) ELSE <<>>)
    \o (IF h[node].right # NoNode THEN preorder_traversal(h, h[node].right) ELSE <<>>)

RECURSIVE levelorder_traversal(_, _, _)
levelorder_traversal(h, stack, path) ==
    IF stack = <<>> THEN path
    ELSE levelorder_traversal(h,
             Tail(stack)
                 \o (IF h[Head(stack)].left # NoNode THEN <<h[Head(stack)].left>> ELSE <<>>)
                 \o (IF h[Head(stack)].right # NoNode THEN <<h[Head(stack)].right>> ELSE <<>>),
             Append(path, Head(stack)))

traversing_option == {"in", "post", "pre", "lvl"}

\* traverse_node (lines 136-145)
traverse_node(h, self, key) ==
    IF key \notin traversing_option THEN [err |-> "ValueError", out |-> <<>>]
    ELSE [err |-> "none",
          out |-> CASE key = "in"   -> inorder_traversal(h, self)
                    [] key = "post" -> postorder_traversal(h, self)
                    [] key = "pre"  -> preorder_traversal(h, self)
                    [] key = "lvl"  -> levelorder_traversal(h, <<self>>, <<>>)]

----------------------------------------------------------------------------
(* BinaryTree (pytree/binarytree/_tree.py) over BST_Node. The result of a  *)
(* call is the heap it leaves, its error and what it returns (a sequence:  *)
(* empty for None).                                                        *)

Result(h, err, out) == [heap |-> h, err |-> err, out |-> out]

\* the value of a node found, None for no node (lines 201, 219, 228)
ValueOf(h, n) == IF n = NoNode THEN <<>> ELSE <<h[n].value>>

\* BinaryTree.insert (lines 116-124); the root of a BST_Node tree never
\* gets a parent
BinaryTree_insert(h, value) ==
    IF h[Root].value = None THEN Result([h EXCEPT ![Root].value = value], "none", <<>>)
    ELSE Result(insert_node(h, Root, value), "none", <<>>)

\* BinaryTree.delete (lines 126-142)
BinaryTree_delete(h, value) ==
    IF h[Root].value = None THEN Result(h, "ValueError", <<>>)
    ELSE IF value = None THEN Result(h, "TypeError", <<>>)
    ELSE IF find_node(h, Root, value) = NoNode THEN Result(h, "ValueError", <<>>)
    ELSE Result(Collect(delete_node(h, find_node(h, Root, value))), "none", <<>>)

\* BinaryTree.find (lines 194-201)
BinaryTree_find(h, value) ==
    IF h[Root].value = None THEN Result(h, "none", <<>>)
    ELSE IF value = None THEN Result(h, "TypeError", <<>>)
    ELSE Result(h, "none", ValueOf(h, find_node(h, Root, value)))

\* BinaryTree.find_gt (lines 212-219)
BinaryTree_find_gt(h, value) ==
    IF h[Root].value = None THEN Result(h, "none", <<>>)
    ELSE IF value = None THEN Result(h, "TypeError", <<>>)
    ELSE Result(h, "none", ValueOf(h, find_gt_node(h, Root, value)))

\* BinaryTree.find_le (lines 221-228)
BinaryTree_find_le(h, value) ==
    IF h[Root].value = None THEN Result(h, "none", <<>>)
    ELSE IF value = None THEN Result(h, "TypeError", <<>>)
    ELSE Result(h, "none", ValueOf(h, find_le_node(h, Root, value)))

\* BinaryTree.find_min, find_max (lines 239-249)
BinaryTree_find_min(h) ==
    IF h[Root].value = None THEN Result(h, "none", <<>>)
    ELSE Result(h, "none", <<h[find_min_node(h, Root)].value>>)

BinaryTree_find_max(h) ==
    IF h[Root].value = None THEN Result(h, "none", <<>>)
    ELSE Result(h, "none", <<h[find_max_node(h, Root)].value>>)

\* what "if value:" takes for given: neither None nor 0
Truthy(value) == value # None /\ value # 0

popping_options == {"val", "min", "max"}

\* the value pop looks up (lines 163-171)
Popped(h, value, key) ==
    IF Truthy(value) THEN BinaryTree_find(h, value)
    ELSE IF key = "val" THEN Result(h, "TypeError", <<>>)
    ELSE IF key = "max" THEN BinaryTree_find_max(h)
    ELSE BinaryTree_find_min(h)

\* BinaryTree.pop (lines 144-175)
BinaryTree_pop(h, value, key) ==
    IF h[Root].value = None THEN Result(h, "IndexError", <<>>)
    ELSE IF key # NoKey /\ key \notin popping_options THEN Result(h, "ValueError", <<>>)
    ELSE IF key # NoKey /\ Truthy(value) THEN Result(h, "ValueError", <<>>)
    ELSE LET found == Popped(h, value, key)
         IN  IF found.err # "none" THEN found
             ELSE LET d == BinaryTree_delete(h, IF found.out = <<>> THEN None ELSE found.out[1])
                  IN  IF d.err # "none" THEN d ELSE Result(d.heap, "none", found.out)

\* BinaryTree.traverse (lines 182-192)
BinaryTree_traverse(h, key) ==
    IF h[Root].value = None THEN Result(h, "none", <<>>)
    ELSE LET r == traverse_node(h, Root, key)
         IN  Result(h, r.err, [i \in 1..Len(r.out) |-> h[r.out[i]].value])

\* BinaryTree.__isub__ with a value that is not a tree (lines 326-333):
\* delete, whose TypeError is raised again as a TypeError
BinaryTree_isub(h, other) == BinaryTree_delete(h, other)

\* Tree.insert of the earlier package (binarytree/_tree.py lines 98-105): the
\* first value makes the root, any other goes through the root node
Tree_insert(h, value) ==
    IF h[Root].value = None THEN Result([h EXCEPT ![Root].value = value], "none", <<>>)
    ELSE Result(insert_node(h, Root, value), "none", <<>>)

\* Tree.__isub__ of the earlier package with a value that is not a tree
\* (binarytree/_tree.py lines 272-276): the value is inserted
Tree_isub(h, other) == Tree_insert(h, other)

----------------------------------------------------------------------------
(* State machine                                                           *)

Here == Pool(nodes, free, inuse, freed)

\* What a call finds before it runs: the free-list head, the counter, the
\* pool length, the fields of the node it is given and of the head block,
\* the number of blocks on the free list and whether every reachable leaf is
\* empty; a query also leaves its box and its result.
Before(op, arg) ==
    [op |-> op, arg |-> arg, err |-> "none",
     free |-> free, inuse |-> inuse, len |-> Len(nodes),
     first_child  |-> IF arg >= 0 THEN At(nodes, arg).first_child ELSE -1,
     total_entity |-> IF arg >= 0 THEN At(nodes, arg).total_entity ELSE 0,
     link  |-> IF free >= 0 THEN At(nodes, free).first_child ELSE -1,
     nfree |-> Len(FreeChain), box |-> NoBox, out |-> <<>>, key |-> NoKey, root |-> None,
     empty |-> op = "clean_up" /\ \A n \in LeavesIn(nodes) : At(nodes, n).total_entity = 0]

NoCall == [op |-> "none", arg |-> -1, err |-> "none", free |-> -1, inuse |-> 1, len |-> 1,
           first_child |-> -1, total_entity |-> 0, link |-> -1, nfree |-> 0, box |-> NoBox, out |-> <<>>,
           key |-> NoKey, root |-> None, empty |-> TRUE]

Commit(s, b) ==
    /\ nodes' = s.nodes
    /\ free'  = s.free
    /\ inuse' = s.inuse
    /\ freed' = s.freed
    /\ last'  = [b EXCEPT !.err = s.err]
    /\ UNCHANGED <<bst, held>>

Init ==
    /\ nodes = <<QuadNode(0)>>
    /\ free  = -1
    /\ inuse = 1
    /\ freed = <<>>
    /\ frees = 0
    /\ last  = NoCall
    /\ bst   = (Root :> BST_Node(None, NoNode))
    /\ held  = {}

\* set_branch(self.all_quad_node[n], n) on a leaf reachable from the root
SetBranch(n) ==
    /\ is_leaf(At(nodes, n))
    /\ free # -1 \/ Len(nodes) < 1 + 4 * MaxBlocks
    /\ inuse < 1 + 4 * MaxBlocks
    /\ Commit(set_branch(Here, n), Before("set_branch", n))
    /\ UNCHANGED frees

\* The entity counts a leaf can be given: the operations only tell an empty
\* leaf from a non-empty one (line 204), so the count 1 stands for every
\* positive count; at most MaxOccupied reachable leaves hold entities.
Counts ==
    IF Cardinality({n \in LeavesIn(nodes) : At(nodes, n).total_entity > 0}) < MaxOccupied
    THEN {0, 1} ELSE {0}

\* the entity count of a reachable leaf changes (entities added or removed)
SetEntity(n, k) ==
    /\ is_leaf(At(nodes, n))
    /\ At(nodes, n).total_entity # k
    /\ Commit([Here EXCEPT !.nodes = Put(nodes, n, [At(nodes, n) EXCEPT !.total_entity = k])],
              NoCall)
    /\ UNCHANGED frees

CleanUp ==
    /\ Commit(clean_up(Here), Before("clean_up", -1))
    /\ UNCHANGED frees

Next ==
    \/ \E n \in LeavesIn(nodes) : SetBranch(n)
    \/ \E n \in LeavesIn(nodes), k \in Counts : SetEntity(n, k)
    \/ CleanUp

Spec == Init /\ [][Next]_vars

\* set_free_quad_node on the block the last set_branch has just given out
FreeLast ==
    /\ last.op = "set_branch"
    /\ Commit(set_free_quad_node(Here, At(nodes, last.arg).first_child),
              [last EXCEPT !.op = "round_trip"])
    /\ UNCHANGED frees

NextRT == Next \/ FreeLast

SpecRT == Init /\ [][NextRT]_vars

\* set_free_quad_node(b) called directly, with any index of the pool
SetFree(b) ==
    /\ frees < MaxFrees
    /\ frees' = frees + 1
    /\ Commit(set_free_quad_node(Here, b), Before("set_free_quad_node", b))

NextFree == Next \/ \E b \in 0..(Len(nodes) - 1) : SetFree(b)

SpecFree == Init /\ [][NextFree]_vars

\* The boxes asked about: every box of side 1 or 2 inside the tree's box
Queries ==
    {BBox(x, y, w, h) : x \in 0..(RootSide - 1), y \in 0..(RootSide - 1), w \in 1..2, h \in 1..2}
        \cap {b \in [x : 0..RootSide, y : 0..RootSide, w : 1..2, h : 1..2] :
                 is_inscribed(b, self_bbox)}

\* Boxes not inside the tree's box: one beside it, one across its corner
Outside == {BBox(RootSide, 0, 1, 1), BBox(RootSide - 1, RootSide - 1, 2, 2)}

\* The boxes the queries are called with: one in the corner of the tree's
\* box, one across its centre, one across the line between its quadrants 0
\* and 1
Asked ==
    {BBox(0, 0, 1, 1),
     BBox((RootSide \div 2) - 1, (RootSide \div 2) - 1, 2, 2),
     BBox((RootSide \div 2) - 1, 0, 2, 1)}

\* what a query leaves behind: its name, its arguments and its result
Answer(op, arg, box, r) ==
    [NoCall EXCEPT !.op = op, !.arg = arg, !.box = box, !.err = r.err, !.out = r.out]

\* a query that resets the root while it answers
Ask_ResetsRoot(b) ==
    /\ last' = b
    /\ nodes' = Put(nodes, 0, QuadNode(0))
    /\ UNCHANGED <<free, inuse, freed, frees, bst, held>>

\* a query changes no field of the tree
Ask(b) ==
    /\ last' = b
    /\ UNCHANGED <<nodes, free, inuse, freed, frees, bst, held>>

\* set_free_quad_node on the children of a reachable branch whose children
\* are all leaves, as clean_up calls it (line 217)
Merge(b) ==
    /\ is_branch(At(nodes, b))
    /\ \A c \in ChildrenOf(nodes, b) : is_leaf(At(nodes, c))
    /\ Commit(set_free_quad_node(Here, At(nodes, b).first_child),
              Before("set_free_quad_node", At(nodes, b).first_child))
    /\ UNCHANGED frees

\* set_free_quad_node on an index that is not the first of a block
BadFree(b) ==
    /\ (b - 1) % 4 # 0
    /\ Commit(set_free_quad_node(Here, b), Before("set_free_quad_node", b))
    /\ UNCHANGED frees

FindQuadNode(q) == Ask(Answer("find_quad_node", -1, q, find_quad_node(nodes, q)))

FindLeaves(q) == Ask(Answer("find_leaves", -1, q, find_leaves(nodes, -1, q)))

GetBbox(n) == Ask(Answer("get_bbox", n, NoBox, get_bbox(nodes, n)))

NextQuery ==
    \/ \E n \in LeavesIn(nodes) : SetBranch(n)
    \/ CleanUp
    \/ \E b \in BranchesIn(nodes) : Merge(b)
    \/ \E q \in Asked \cup Outside : FindQuadNode(q)
    \/ \E q \in Asked : FindLeaves(q)

SpecQuery == Init /\ [][NextQuery]_vars

\* the calls that are given a slot of the pool
NextSlot ==
    \/ \E n \in LeavesIn(nodes) : SetBranch(n)
    \/ CleanUp
    \/ \E b \in BranchesIn(nodes) : Merge(b)
    \/ \E b \in 0..(Len(nodes) - 1) : BadFree(b)
    \/ \E n \in Reachable : GetBbox(n)

SpecSlot == Init /\ [][NextSlot]_vars

\* fill_tree's default for the number of entities a leaf takes (line 64)
capacity == 1

\* the default of the constructor (line 14)
max_depth == 12

\* the entities inserted: a box of side 1 in the corner of each quadrant of
\* the tree's box
Entities == {BBox(split_box(self_bbox)[i].x, split_box(self_bbox)[i].y, 1, 1) : i \in 0..3}

\* insert called with an entity (given = 1) or as declared (given = 0); the
\* node recorded is the one find_quad_node gives for the entity's box
Insert(e, given) ==
    /\ Commit(insert(Here, given),
              [Before("insert", find_quad_node(nodes, e).out[1].index) EXCEPT
                  !.box = IF given = 0 THEN NoBox ELSE e])
    /\ UNCHANGED frees

NextInsert == Next \/ \E e \in Entities, given \in {0, 1} : Insert(e, given)

SpecInsert == Init /\ [][NextInsert]_vars

\* QuadTree(size): lines 17-27 take any size, the pool starts with the root
QuadTree_init(w, h) == Pool(<<QuadNode(0)>>, -1, 1, <<>>)

\* the sizes a tree is constructed with
Sizes == {-1, 0, RootSide}

\* a tree is constructed anew; the box recorded is self.bbox
New(w, h) ==
    /\ Commit(QuadTree_init(w, h), [NoCall EXCEPT !.op = "__init__", !.box = BBox(0, 0, w, h)])
    /\ frees' = 0

NextNew == Next \/ \E w \in Sizes, h \in Sizes : New(w, h)

SpecNew == Init /\ [][NextNew]_vars

\* every call that reads or writes the pool
NextPool ==
    \/ \E n \in LeavesIn(nodes) : SetBranch(n)
    \/ CleanUp
    \/ \E b \in BranchesIn(nodes) : Merge(b)
    \/ \E b \in 0..(Len(nodes) - 1) : BadFree(b)
    \/ \E q \in Asked \cup Outside : FindQuadNode(q)
    \/ \E q \in Asked : FindLeaves(q)
    \/ \E n \in Reachable : GetBbox(n)

SpecPool == Init /\ [][NextPool]_vars

Height == Ask(Answer("height", -1, NoBox, height(nodes)))

NextHeight == Next \/ Height

SpecHeight == Init /\ [][NextHeight]_vars

\* find_leaves(qnode, bbox) with a node, a box, both or neither
FindLeavesIn(n, q) == Ask(Answer("find_leaves", n, q, find_leaves(nodes, n, q)))

\* the queries, between the calls that build the tree
NextRead ==
    \/ \E n \in LeavesIn(nodes) : SetBranch(n)
    \/ CleanUp
    \/ \E q \in Asked \cup Outside : FindQuadNode(q)
    \/ \E n \in Reachable \cup {-1}, q \in Asked \cup {NoBox} : FindLeavesIn(n, q)
    \/ \E n \in Reachable : GetBbox(n)
    \/ Height

SpecRead == Init /\ [][NextRead]_vars

\* a call on the binary tree: the heap it leaves, the values held after it
\* and what is remembered of it, the value it found at the root included
Tell(op, value, key, r, S) ==
    /\ bst'  = r.heap
    /\ held' = S
    /\ last' = [NoCall EXCEPT !.op = op, !.arg = value, !.key = key,
                              !.err = r.err, !.out = r.out,
                              !.root = bst[Root].value]
    /\ UNCHANGED <<nodes, free, inuse, freed, frees>>

TreeInsert(v) == Tell("insert", v, NoKey, BinaryTree_insert(bst, v), held \cup {v})

TreeDelete(v) ==
    Tell("delete", v, NoKey, BinaryTree_delete(bst, v),
         IF BinaryTree_delete(bst, v).err = "none" THEN held \ {v} ELSE held)

TreeTraverse(key) == Tell("traverse", None, key, BinaryTree_traverse(bst, key), held)

TreeFindGt(v) == Tell("find_gt", v, NoKey, BinaryTree_find_gt(bst, v), held)

TreeFindLe(v) == Tell("find_le", v, NoKey, BinaryTree_find_le(bst, v), held)

\* pop(value, key): what it returns is what leaves the tree
TreePop(value, key) ==
    Tell("pop", value, key, BinaryTree_pop(bst, value, key),
         IF BinaryTree_pop(bst, value, key).err = "none"
         THEN held \ {BinaryTree_pop(bst, value, key).out[1]} ELSE held)

NextTree ==
    \/ \E v \in Values : TreeInsert(v)
    \/ \E v \in Values : TreeDelete(v)
    \/ \E key \in traversing_option \cup {"bad"} : TreeTraverse(key)
    \/ \E v \in Values : TreeFindGt(v)
    \/ \E v \in Values : TreeFindLe(v)

SpecTree == Init /\ [][NextTree]_vars

NextPop ==
    \/ NextTree
    \/ \E value \in Values \cup {None}, key \in popping_options \cup {NoKey, "bad"} :
           TreePop(value, key)

SpecPop == Init /\ [][NextPop]_vars

\* node._rotate_left() on the node that holds v, which has a right child;
\* the tree then takes the top object for its root
RotateLeft(v) ==
    /\ find_node(bst, Root, v) # NoNode
    /\ bst[find_node(bst, Root, v)].right # NoNode
    /\ Tell("_rotate_left", v, NoKey,
            Result(Reroot(rotate_left(bst, find_node(bst, Root, v))), "none", <<>>), held)

\* node._rotate_right() on the node that holds v, which has a left child
RotateRight(v) ==
    /\ find_node(bst, Root, v) # NoNode
    /\ bst[find_node(bst, Root, v)].left # NoNode
    /\ Tell("_rotate_right", v, NoKey,
            Result(Reroot(rotate_right(bst, find_node(bst, Root, v))), "none", <<>>), held)

NextRotate ==
    \/ \E v \in Values : TreeInsert(v)
    \/ \E v \in Values : TreeDelete(v)
    \/ \E v \in Values : RotateLeft(v)
    \/ \E v \in Values : RotateRight(v)

SpecRotate == Init /\ [][NextRotate]_vars

\* tree -= v on a BinaryTree
BinaryTreeISub(v) ==
    Tell("BinaryTree.__isub__", v, NoKey, BinaryTree_isub(bst, v),
         IF BinaryTree_isub(bst, v).err = "none" THEN held \ {v} ELSE held)

\* tree -= v on a Tree of the earlier package
TreeISub(v) == Tell("Tree.__isub__", v, NoKey, Tree_isub(bst, v), held \cup {v})

NextISub ==
    \/ \E v \in Values : TreeInsert(v)
    \/ \E v \in Values : TreeDelete(v)
    \/ \E v \in Values : BinaryTreeISub(v)
    \/ \E v \in Values : TreeISub(v)

SpecISub == Init /\ [][NextISub]_vars

----------------------------------------------------------------------------
(* Properties                                                              *)

Slots == 0..(Len(nodes) - 1)

EmptyLeaf(q) == is_leaf(q) /\ q.total_entity = 0

\* C1: the in-use counter equals 1 + 4 * (number of branch nodes reachable
\* from the root).
C1_InUseCountsBranches == inuse = 1 + 4 * Cardinality(BranchesIn(nodes))

\* C2: every reachable branch has its 4 children at first_child ..
\* first_child + 3 inside the pool, each in use and each with parent_index
\* equal to the branch's index.
C2_ChildrenOfBranch ==
    \A b \in BranchesIn(nodes) :
        LET fc == At(nodes, b).first_child
        IN  /\ fc >= 1
            /\ fc + 3 < Len(nodes)
            /\ \A i \in 0..3 : /\ At(nodes, fc + i).in_use
                               /\ At(nodes, fc + i).parent_index = b

\* a split has reused a block while another branch was in the tree
C2_Witness ==
    /\ last.op = "set_branch"
    /\ last.free # -1
    /\ Cardinality(BranchesIn(nodes)) >= 2

\* C3: after a set_branch served from the free list, each of the 4 child
\* slots is in the state of a freshly appended child of the split node.
C3_ReusedChildrenFresh ==
    (last.op = "set_branch" /\ last.free # -1) =>
        \A i \in 0..3 : At(nodes, last.free + i) = QuadNode(last.arg)

\* a split of a node other than the root has been served from the free list
C3_Witness ==
    /\ last.op = "set_branch"
    /\ last.free # -1
    /\ last.arg # 0

\* C4 as claimed: after set_branch(n) followed by set_free_quad_node of the
\* block just given out, the free-list head, the counter and n's first_child
\* and total_entity are what they were before the split.
C4_RoundTripRestores ==
    last.op = "round_trip" =>
        /\ free = last.free
        /\ inuse = last.inuse
        /\ At(nodes, last.arg).first_child = last.first_child
        /\ At(nodes, last.arg).total_entity = last.total_entity

\* C4 as amended: the round trip restores the counter; it leaves n an empty
\* leaf (first_child = -1, total_entity = 0); the head is the base of the
\* block that was given out: the head of before when the free list was not
\* empty (with the same link behind it and the same pool length), the base of
\* the appended block when it was empty.
C4_RoundTripAmended ==
    last.op = "round_trip" =>
        /\ last.err = "none"
        /\ inuse = last.inuse
        /\ At(nodes, last.arg).first_child = -1
        /\ At(nodes, last.arg).total_entity = 0
        /\ last.free # -1 => /\ free = last.free
                             /\ At(nodes, free).first_child = last.link
                             /\ Len(nodes) = last.len
        /\ last.free = -1 => /\ free = last.len
                             /\ At(nodes, free).first_child = -1
                             /\ Len(nodes) = last.len + 4

\* a round trip has been made on a non-empty free list
C4_Witness == last.op = "round_trip" /\ last.free # -1

\* C5: a second clean_up right after a clean_up changes nothing: every node
\* record, the free-list head and the counter stay as the first call left them.
C5_CleanUpIdempotent == last.op = "clean_up" => clean_up(Here) = Here

\* clean_up has just collapsed a branch below the root and left another one
C5_Witness ==
    /\ last.op = "clean_up"
    /\ inuse < last.inuse
    /\ BranchesIn(nodes) # {}

\* C6: the free-list chain lists the freed blocks latest first, and a
\* set_branch made on a non-empty free list gives the split node the head
\* block, keeps the pool length and moves the head to the link of that block.
C6_LifoReuse ==
    /\ FreeChain = freed
    /\ (last.op = "set_branch" /\ last.free # -1) =>
          /\ At(nodes, last.arg).first_child = last.free
          /\ Len(nodes) = last.len
          /\ free = last.link

\* a split has taken the latest of two freed blocks
C6_Witness ==
    /\ last.op = "set_branch"
    /\ last.free # -1
    /\ last.link # -1
    /\ free = last.link

\* C7: after clean_up no reachable branch has four empty leaves as children,
\* and if every reachable leaf was empty before the call, the counter is 1 and
\* the root is a leaf.
C7_CleanUpCollapsesAll ==
    last.op = "clean_up" =>
        /\ \A b \in BranchesIn(nodes) :
              \E c \in ChildrenOf(nodes, b) : ~EmptyLeaf(At(nodes, c))
        /\ last.empty => (inuse = 1 /\ is_leaf(At(nodes, 0)))

\* C8: every slot that is not in use is unreachable from the root and lies in
\* a block of the free-list chain.
C8_FreeSlotsOnChain ==
    \A i \in Slots :
        ~At(nodes, i).in_use =>
            /\ i \notin Reachable
            /\ \E b \in Range(FreeChain) : i \in BlockOf(b)

\* two blocks are on the free list
C8_Witness == Len(FreeChain) = 2 /\ last.op = "clean_up"

\* C9: no slot is a child of two reachable branches, and no reachable slot
\* lies in a block of the free-list chain.
C9_NoSlotHandedOutTwice ==
    /\ \A a, b \in BranchesIn(nodes) :
          a # b => ChildrenOf(nodes, a) \cap ChildrenOf(nodes, b) = {}
    /\ \A b \in Range(FreeChain) : BlockOf(b) \cap Reachable = {}

\* a block has been reused while the free list still holds another one
C9_Witness ==
    /\ last.op = "set_branch"
    /\ last.free # -1
    /\ free # -1
    /\ BranchesIn(nodes) # {}

\* C10: the root stays in use and is never put on the free list.
C10_RootNeverFreed ==
    /\ At(nodes, 0).in_use
    /\ free # 0
    /\ \A b \in Range(FreeChain) : 0 \notin BlockOf(b)

\* a base of the free list: the first slot of a block of 4 slots, none in use
FreeBase(b) ==
    /\ b >= 1
    /\ (b - 1) % 4 = 0
    /\ b + 3 < Len(nodes)
    /\ \A i \in 0..3 : ~At(nodes, b + i).in_use

C13_LeafIffNoChild ==
    \A i \in Slots :
        At(nodes, i).in_use =>
            (At(nodes, i).total_entity >= 0 <=> At(nodes, i).first_child = -1)

\* The regions of the nodes reachable from the root, derived top-down as the
\* descents of find_quad_node and find_leaves derive them: child
\* first_child + i of a branch has quadrant i of the branch's region.
\* E: the entries found so far, F: those of them not yet expanded.
RECURSIVE TopDown(_, _, _)
TopDown(ns, E, F) ==
    LET T == UNION {{Entry(At(ns, e.index).first_child + i, split_box(e.bbox)[i]) : i \in 0..3} :
                       e \in {f \in F : is_branch(At(ns, f.index))}}
    IN  IF T = {} THEN E ELSE TopDown(ns, E \cup T, T)

RegionsIn(ns) == TopDown(ns, {Entry(0, self_bbox)}, {Entry(0, self_bbox)})

Region(n) == (CHOOSE e \in RegionsIn(nodes) : e.index = n).bbox

\* the number of splits between the root and node n
Depth(n) == IF n = 0 THEN 0 ELSE Len(Quadrants(nodes, n))

\* C14: set_free_quad_node(i) with (i - 1) mod 4 # 0 raises ValueError and
\* leaves every node record, the free-list head and the counter as they were.
C14_BadIndexRejected ==
    /\ \A b \in Slots :
          (b - 1) % 4 # 0 => set_free_quad_node(Here, b) = Raise(Here, "ValueError")
    /\ last.op = "set_free_quad_node" /\ (last.arg - 1) % 4 # 0
          => /\ last.err = "ValueError"
             /\ free = last.free /\ inuse = last.inuse /\ Len(nodes) = last.len
             /\ At(nodes, last.arg).first_child = last.first_child
             /\ At(nodes, last.arg).total_entity = last.total_entity

\* a rejected call on the last slot of a block, in a tree that has branches
C14_Witness ==
    /\ last.op = "set_free_quad_node" /\ last.err = "ValueError"
    /\ last.arg >= 4 /\ last.arg % 4 = 0
    /\ inuse > 1

\* C15: for a query box inside the root box find_quad_node returns a node
\* reachable from the root whose region contains the box, and no reachable
\* node of a strictly smaller region contains the box.
C15_SmallestContainingNode ==
    LET R == RegionsIn(nodes)
    IN  \A q \in Queries :
            \A r \in {find_quad_node(nodes, q)} :
                /\ r.err = "none"
                /\ Len(r.out) = 1
                /\ r.out[1] \in R
                /\ is_inscribed(q, r.out[1].bbox)
                /\ \A e \in R : is_inscribed(q, e.bbox) => Area(e.bbox) >= Area(r.out[1].bbox)

\* a query answered with a node two splits below the root
C15_Witness ==
    /\ last.op = "find_quad_node" /\ last.err = "none"
    /\ last.box \in Queries
    /\ Depth(last.out[1].index) = 2
    /\ is_inscribed(last.box, Region(last.out[1].index))

\* C16: find_quad_node with a box outside the root region reports NotFound
\* and returns no node.
C16_OutsideNotFound ==
    last.op = "find_quad_node" /\ ~is_inscribed(last.box, self_bbox)
        => last.err = "NotFound" /\ last.out = <<>>

\* C17: find_leaves(bbox = B) with B inside the root box returns every
\* reachable leaf whose region overlaps B, and returns it exactly once.
C17_LeavesComplete ==
    LET L == {e \in RegionsIn(nodes) : is_leaf(At(nodes, e.index))}
    IN  \A q \in Queries :
            \A r \in {find_leaves(nodes, -1, q)} :
                /\ r.err = "none"
                /\ \A e \in L :
                      is_intersecting(e.bbox, q)
                          => Cardinality({i \in 1..Len(r.out) : r.out[i].index = e.index}) = 1

\* a query whose box overlaps leaves of two depths, all of them returned
C17_Witness ==
    /\ last.op = "find_leaves" /\ last.err = "none"
    /\ \E e, f \in RegionsIn(nodes) :
          /\ Depth(e.index) = 1 /\ Depth(f.index) = 2
          /\ is_leaf(At(nodes, e.index)) /\ is_leaf(At(nodes, f.index))
          /\ is_intersecting(e.bbox, last.box) /\ is_intersecting(f.bbox, last.box)
          /\ \E i, j \in 1..Len(last.out) : last.out[i] = e /\ last.out[j] = f

\* C18: every (leaf, region) pair find_leaves(bbox = B) returns has a region
\* that overlaps B.
C18_LeavesSound ==
    last.op = "find_leaves" /\ last.err = "none"
        => \A i \in 1..Len(last.out) : is_intersecting(last.out[i].bbox, last.box)

\* C19: get_bbox(node) returns the node's index and the region obtained by
\* splitting the root box along the node's quadrants from the root down.
C19_RegionTopDown ==
    last.op = "get_bbox"
        => last.err = "none" /\ last.out = <<Entry(last.arg, Region(last.arg))>>

\* C20: insert of an entity whose containing leaf is at capacity and above
\* max_depth splits that leaf once and counts every entity in a child: the
\* counter grows by 4, the leaf is a branch, and its children hold the
\* entities it held and the new one, which is counted in the child whose
\* region contains it.
C20_InsertSplitsOnce ==
    /\ last.op = "insert" /\ last.box # NoBox
    /\ last.total_entity >= capacity
    /\ Depth(last.arg) < max_depth
    => /\ last.err = "none"
       /\ inuse = last.inuse + 4
       /\ is_branch(At(nodes, last.arg))
       /\ \E i \in 0..3 :
             /\ is_inscribed(last.box, split_box(Region(last.arg))[i])
             /\ At(nodes, At(nodes, last.arg).first_child + i).total_entity >= 1

\* C21: constructing a QuadTree with a width or a height <= 0 is rejected
\* with an invalid-argument error.
C21_BadSizeRejected ==
    last.op = "__init__" /\ (last.box.w <= 0 \/ last.box.h <= 0) => last.err = "ValueError"

\* a step of the pool length: none, or one block appended by a set_branch
\* that found the free list empty, the split node pointing at it
PoolStep ==
    /\ \/ Len(nodes') = Len(nodes)
       \/ /\ Len(nodes') = Len(nodes) + 4
          /\ free = -1
          /\ last'.op = "set_branch"
          /\ At(nodes', last'.arg).first_child = Len(nodes)
    /\ last'.op = "set_branch" /\ free = -1 => Len(nodes') = Len(nodes) + 4

\* C22: the pool never shrinks, its length is 1 + 4m, and it grows, by
\* exactly 4 and with the split node's first_child at the old length, only
\* in a set_branch that finds the free list empty.
C22_PoolAppendOnly == []((Len(nodes) - 1) % 4 = 0) /\ [][PoolStep]_vars

\* a set_branch that reused a freed block in a pool of two blocks
C22_Witness ==
    /\ last.op = "set_branch" /\ last.free # -1
    /\ Len(nodes) = last.len /\ Len(nodes) >= 9

\* C29: clean_up loses no data: every reachable leaf that holds entities is
\* reachable after clean_up with the same total_entity, and no slot of a
\* block that clean_up has freed is a branch.
C29_CleanUpKeepsData ==
    /\ \A n \in LeavesIn(nodes) :
          At(nodes, n).total_entity > 0
              => /\ n \in LeavesIn(clean_up(Here).nodes)
                 /\ At(clean_up(Here).nodes, n).total_entity = At(nodes, n).total_entity
    /\ last.op = "clean_up"
          => \A b \in Range(FreeChain) : \A i \in 0..3 :
                 ValidIndex(nodes, b + i) => ~is_branch(At(nodes, b + i))

\* C30: set_free_quad_node(b) with (b - 1) mod 4 = 0 frees exactly the
\* slots b..b+3, linking them to the previous head, makes b the head, resets
\* the owning parent to an empty leaf and takes 4 off the counter; every
\* other slot is unchanged, whatever the state of block b and of its parent.
C30_FreesExactlyTheBlock ==
    /\ \A b \in Slots :
          (b - 1) % 4 = 0 /\ b + 3 < Len(nodes)
              => LET s == set_free_quad_node(Here, b)
                     p == At(nodes, b).parent_index
                 IN  /\ s.err = "none"
                     /\ s.free = b /\ s.inuse = inuse - 4
                     /\ Len(s.nodes) = Len(nodes)
                     /\ \A i \in Slots :
                           IF i \in BlockOf(b)
                           THEN s.nodes[i + 1] = set_free(nodes[i + 1], free)
                           ELSE IF i = p
                           THEN s.nodes[i + 1] =
                                    [nodes[i + 1] EXCEPT !.first_child = -1, !.total_entity = 0]
                           ELSE s.nodes[i + 1] = nodes[i + 1]
    /\ last.op = "set_free_quad_node" /\ (last.arg - 1) % 4 = 0 /\ last.arg + 3 < last.len
          => /\ last.err = "none"
             /\ free = last.arg /\ inuse = last.inuse - 4
             /\ \A i \in BlockOf(last.arg) :
                   ~At(nodes, i).in_use /\ At(nodes, i).first_child = last.free

\* the values of the nodes of a heap
Vals(h) == {h[n].value : n \in DOMAIN h} \ {None}

Least(S) == CHOOSE x \in S : \A y \in S : x <= y

Greatest(S) == CHOOSE x \in S : \A y \in S : x >= y

\* the values of a set from the least to the greatest
RECURSIVE Ascending(_)
Ascending(S) == IF S = {} THEN <<>> ELSE <<Least(S)>> \o Ascending(S \ {Least(S)})

\* C23: traverse(key) with a key that is none of 'in', 'pre', 'post', 'lvl'
\* raises ValueError in every tree, the empty one included, and returns no
\* list.
C23_BadKeyRejected ==
    last.op = "traverse" /\ last.key \notin traversing_option => last.err = "ValueError"

\* C24: after any sequence of insert and delete, traverse('in') is the
\* increasing list of exactly the values inserted and not deleted since;
\* inserting a value that is held changes nothing.
C24_InOrderIsTheSet ==
    /\ BinaryTree_traverse(bst, "in") = Result(bst, "none", Ascending(held))
    /\ \A v \in held : BinaryTree_insert(bst, v).heap = bst
    /\ last.op = "delete" /\ last.err = "none" => last.arg \notin held

\* a delete of a value between the least and the greatest held
C24_Witness ==
    /\ last.op = "delete" /\ last.err = "none"
    /\ Cardinality(held) >= 2
    /\ Least(held) < last.arg /\ last.arg < Greatest(held)

\* a pop with a value held returns it and removes exactly it; a pop without
\* arguments returns and removes the least value
PopStep ==
    /\ last'.op = "pop" /\ last'.key = NoKey /\ last'.arg \in Vals(bst)
          => /\ last'.err = "none" /\ last'.out = <<last'.arg>>
             /\ Vals(bst') = Vals(bst) \ {last'.arg}
    /\ last'.op = "pop" /\ last'.key = NoKey /\ last'.arg = None /\ Vals(bst) # {}
          => /\ last'.err = "none" /\ last'.out = <<Least(Vals(bst))>>
             /\ Vals(bst') = Vals(bst) \ {Least(Vals(bst))}

\* C25: pop(value = v) on a tree that contains v returns v and removes
\* exactly v, for every v, 0 included; pop() returns and removes the minimum.
C25_PopRemovesTheValue == [][PopStep]_vars

\* C26: find_gt(v) on a non-empty tree returns the least value held that is
\* greater than v, and None when there is none.
C26_FindGt ==
    last.op = "find_gt" /\ held # {}
        => /\ last.err = "none"
           /\ last.out = IF {x \in held : x > last.arg} = {} THEN <<>>
                          ELSE <<Least({x \in held : x > last.arg})>>

\* C27: find_le(v) on a non-empty tree returns the greatest value held that
\* is less than or equal to v, and None when there is none.
C27_FindLe ==
    last.op = "find_le" /\ held # {}
        => /\ last.err = "none"
           /\ last.out = IF {x \in held : x <= last.arg} = {} THEN <<>>
                          ELSE <<Greatest({x \in held : x <= last.arg})>>

\* C28: delete(v) raises ValueError when the tree is empty or does not hold
\* v, and leaves the tree as it was.
C28_DeleteAbsentRejected ==
    /\ \A v \in Values \ held : BinaryTree_delete(bst, v) = Result(bst, "ValueError", <<>>)
    /\ last.op = "delete" /\ last.arg \notin Vals(bst) /\ last.err # "none"
          => last.err = "ValueError"

\* a delete rejected by a tree that holds other values
C28_Witness ==
    /\ last.op = "delete" /\ last.err = "ValueError"
    /\ Cardinality(held) >= 2 /\ last.arg \notin held

\* what a step made by set_branch on node last'.arg may change
SetBranchStep ==
    last'.op = "set_branch" =>
        LET n  == last'.arg
            fc == At(nodes', n).first_child
        IN  /\ last'.err = "none"
            /\ inuse' = inuse + 4
            /\ fc = IF free = -1 THEN Len(nodes) ELSE free
            /\ At(nodes', n) = [At(nodes, n) EXCEPT !.total_entity = -1, !.first_child = fc]
            /\ free' = IF free = -1 THEN -1 ELSE At(nodes, free).first_child
            /\ Len(nodes') = IF free = -1 THEN Len(nodes) + 4 ELSE Len(nodes)
            /\ \A k \in Slots \ ({n} \cup BlockOf(fc)) : At(nodes', k) = At(nodes, k)

\* C31: set_branch on a reachable leaf changes the split node (total_entity
\* = -1, first_child), the 4 slots of its new children, the free-list head
\* and the counter (+4), and nothing else: every other slot of the pool,
\* the blocks further down the free list included, is as it was.
C31_SetBranchFrame == [][SetBranchStep]_vars

\* a split served from a free list of two blocks, one of which stays on it
C31_Witness ==
    /\ last.op = "set_branch"
    /\ last.nfree >= 2
    /\ free # -1
    /\ At(nodes, last.arg).first_child = last.free

\* C32: the free-list chain from the head visits no block twice, ends at
\* -1, and its length L satisfies num_quad_node - num_quad_node_in_use
\* = 4 * L.
C32_FreeChainCounts ==
    /\ Cardinality(Range(FreeChain)) = Len(FreeChain)
    /\ free # -1 => /\ FreeChain # <<>>
                    /\ At(nodes, FreeChain[Len(FreeChain)]).first_child = -1
    /\ Len(nodes) - inuse = 4 * Len(FreeChain)

\* a split has taken the head of a free list of two blocks
C32_Witness ==
    /\ last.op = "set_branch"
    /\ last.nfree = 2
    /\ Len(FreeChain) = 1
    /\ Len(nodes) - inuse = 4

\* the number of branches nested below node n in the structure reachable
\* from the root
RECURSIVE Nested(_, _)
Nested(ns, n) ==
    IF ChildrenOf(ns, n) = {} THEN 0
    ELSE 1 + Max({Nested(ns, c) : c \in ChildrenOf(ns, n)})

\* C33: height is 1 + the greatest number of nested branches on a path from
\* the root to a leaf: 1 for a tree whose root is a leaf, fresh or collapsed
\* by clean_up, and never a count of free-list links.
C33_HeightOfStructure ==
    /\ height(nodes) = [err |-> "none", out |-> <<1 + Nested(nodes, 0)>>]
    /\ last.op = "height" => last.err = "none" /\ last.out = <<1 + Nested(nodes, 0)>>

\* a step made by a query leaves the node records, the pool length, the
\* free-list head and the counter as they were
ReadStep ==
    last'.op \in {"find_quad_node", "find_leaves", "get_bbox", "height"}
        => nodes' = nodes /\ free' = free /\ inuse' = inuse

\* C34: find_quad_node, find_leaves, get_bbox and height are read-only:
\* every node record, the pool length, the free-list head and the counter
\* are unchanged by them, also when find_leaves raises ValueError because
\* neither or both of qnode and bbox are given.
C34_QueriesReadOnly == [][ReadStep]_vars

\* find_leaves given a node and a box has raised on a tree with branches
C34_Witness ==
    /\ last.op = "find_leaves" /\ last.err = "ValueError"
    /\ last.arg # -1 /\ last.box # NoBox
    /\ BranchesIn(nodes) # {}

\* the links of the objects reachable from the object top of heap h agree:
\* top has no parent, every child is an object of the heap and names as its
\* parent the node it is the child of
LinksFrom(h, top) ==
    /\ h[top].parent = NoNode
    /\ \A n \in Live(h, top) :
          /\ n \in DOMAIN h
          /\ h[n].left # NoNode => h[n].left \in DOMAIN h /\ h[h[n].left].parent = n
          /\ h[n].right # NoNode => h[n].right \in DOMAIN h /\ h[h[n].right].parent = n

LinksAgree(h) == LinksFrom(h, Root)

\* C35: after any sequence of insert and delete, the deletion of the root
\* with no, one or two children included, the root has parent None, every
\* left or right child of a reachable node has that node as parent, and no
\* deleted node is reachable.
C35_LinksConsistent ==
    /\ LinksAgree(bst)
    /\ \A v \in held : LinksAgree(delete_node(bst, find_node(bst, Root, v)))
    /\ last.op = "delete" /\ last.err = "none" => last.arg \notin Vals(bst)

\* the value at the root has been deleted from a tree of three values or more
C35_Witness ==
    /\ last.op = "delete" /\ last.err = "none"
    /\ last.arg = last.root
    /\ Cardinality(Vals(bst)) >= 2

\* the values of the whole tree that node n of heap h is in, in order
InOrderAround(h, n) ==
    [i \in 1..Len(inorder_traversal(h, get_root(h, n))) |->
        h[inorder_traversal(h, get_root(h, n))[i]].value]

\* heap h, left by a rotation at node n, holds the values in the order they
\* had and its links agree from the top down
RotationKeeps(h, n) ==
    /\ InOrderAround(h, n) = Ascending(held)
    /\ LinksFrom(h, get_root(h, n))

\* C36: _rotate_left on a node with a right child and _rotate_right on a
\* node with a left child keep the in-order sequence of the values of the
\* whole tree, and leave the parent field of every node they move in
\* agreement with the left/right field of its parent, the link from the
\* original parent to the promoted node included.
C36_RotationsKeepOrder ==
    /\ bst[Root].value # None =>
          \A n \in DOMAIN bst :
              /\ bst[n].right # NoNode => RotationKeeps(rotate_left(bst, n), n)
              /\ bst[n].left # NoNode => RotationKeeps(rotate_right(bst, n), n)
    /\ last.op \in {"_rotate_left", "_rotate_right"} => RotationKeeps(bst, Root)

\* a left rotation below the root has moved a subtree: the rotated node has
\* a right child again and its new parent hangs from the old one
C36_Witness ==
    /\ last.op = "_rotate_left"
    /\ \E y \in DOMAIN bst :
          /\ bst[y].value = last.arg
          /\ bst[y].right # NoNode
          /\ bst[y].parent # NoNode
          /\ bst[bst[y].parent].parent # NoNode

\* tree -= v leaves the values the tree had, less v
ISubStep ==
    last'.op \in {"Tree.__isub__", "BinaryTree.__isub__"}
        => Vals(bst') = Vals(bst) \ {last'.arg}

\* C37: tree -= v with a single value v removes v and never adds a value:
\* afterwards the tree's values are the previous ones minus v.
C37_ISubRemoves == [][ISubStep]_vars

====
